---- MODULE Spec2Model ----
(***************************************************************************)
(* State machine of src/server.js: the check-in timer (safetyState), its   *)
(* HTTP handlers, the periodic checkTimer and the asynchronous             *)
(* sendAlertToContacts fan-out.                                            *)
(*                                                                         *)
(* Node runs every handler, timer callback and promise continuation to     *)
(* completion on one thread, so each of them is one atomic action; the     *)
(* only interleaving points are the `await bot.sendMessage` of line 140    *)
(* and the setTimeout of line 172.  A handler reads the clock once: the    *)
(* two Date.now() calls of lines 99-100 are taken at the same millisecond. *)
(* Times are epoch milliseconds.  The clock advances by the period of      *)
(* setInterval (line 182) and checkTimer runs once in each period, before  *)
(* or after the requests and callbacks that fall into the same period; the *)
(* re-arm timeout (1 s, line 176) runs at any point after it was set.      *)
(***************************************************************************)
EXTENDS Integers, Sequences, FiniteSets, TLC

\* ------------------------------------------------------------------ bounds
MaxTicks == 2
MaxContacts == 2
MaxInFlight == 2
MaxResetPeriods == 1
MaxTimerPeriods == 1

\* ------------------------------------------------------- program constants
MsPerSecond == 1000
checkInterval == 30000
\* Date.now() when the module is loaded
BootTime == 2 * checkInterval
SecondsPerMinute == 60
SecondsPerHour == 3600
DefaultTimerDuration == 24 * 60 * 60 * 1000
\* JS null; `!safetyState.deadline` (lines 40, 98, 155) treats null and 0 alike
Null == 0
\* a property that the returned object does not have (result.total, line 129)
Undefined == 0 - 1
NullName == "null"
Anonymous == "Anonymous"
NoChatId == ""
defaultMessage == "SAFETY CHECK-IN MISSED"

\* ------------------------------------------------------------------ inputs
ChatIds == {"c1"}
\* an element of the posted array: null, an object without chatId, or an
\* object with a chatId
NullElement == [isObject |-> FALSE, chatId |-> NoChatId]
ContactValues ==
    {NullElement} \cup {[isObject |-> TRUE, chatId |-> c] : c \in ChatIds \cup {NoChatId}}
ContactLists == UNION {[1..n -> ContactValues] : n \in 0..MaxContacts}
\* req.body.contacts: an array, or anything else
ContactsBodies ==
    {[isArray |-> TRUE, items |-> l] : l \in ContactLists}
        \cup {[isArray |-> FALSE, items |-> <<>>]}
\* req.body.duration: absent (<<>>) or a number of milliseconds
ResetDurations ==
    {<<>>} \cup {<<k * checkInterval>> : k \in (0 - 1)..MaxResetPeriods}
\* req.body.resetBy: "" stands for absent or empty, both falsy at line 62
ResetNames == {"", "Alice"}
\* req.body of /api/timer-duration; an absent field reads as 0 (line 89)
TimerDurationBodies ==
    {[hours |-> 0, minutes |-> 0, seconds |-> k * (checkInterval \div MsPerSecond)] :
        k \in (0 - 1)..MaxTimerPeriods}
        \cup {[hours |-> 0, minutes |-> 1, seconds |-> 0 - 30],
              [hours |-> 1, minutes |-> 0 - 59, seconds |-> 0 - 30]}
\* req.body.message of /api/send-alert; "" stands for absent or empty
Messages == {"", "help"}
Horizon == BootTime + MaxTicks * checkInterval

\* ------------------------------------------------------------------- state
VARIABLES
    phase,          \* "loaded" (module evaluated), "listening", "crashed"
    now,            \* Date.now()
    nextTick,       \* when setInterval runs checkTimer next
    safetyState,    \* the in-memory record of lines 22-28
    dispatches,     \* suspended sendAlertToContacts calls, one per slot
    rearmTimers,    \* pending setTimeout callbacks of line 172
    lastReturn,     \* history: what sendAlertToContacts resolved with in this step
    alertedDeadline, \* history: the deadline of the last alert checkTimer started
    rejected,       \* history: the route that answered 400 in this step, "" if none
    status          \* history: the body GET /api/timer answered with in this step

vars == <<phase, now, nextTick, safetyState, dispatches, rearmTimers, lastReturn,
          alertedDeadline, rejected, status>>

Idle == [origin |-> "idle"]
Slots == 1..MaxInFlight
InFlight == {s \in Slots : dispatches[s].origin # "idle"}
TickInFlight == {s \in Slots : dispatches[s].origin = "tick"}
\* alerts started and not yet followed by their re-arm
Outstanding == Cardinality(InFlight) + rearmTimers

Init ==
    /\ phase = "loaded"
    /\ now = BootTime
    /\ nextTick = BootTime + checkInterval
    /\ safetyState = [deadline |-> Null,
                      timerDuration |-> DefaultTimerDuration,
                      contacts |-> <<>>,
                      alertSentForCurrentDeadline |-> FALSE,
                      lastResetBy |-> NullName]
    /\ dispatches = [s \in Slots |-> Idle]
    /\ rearmTimers = 0
    /\ lastReturn = <<>>
    /\ alertedDeadline = Null
    /\ rejected = ""
    /\ status = <<>>

\* ----------------------------------------------------------------- helpers
\* JS truthiness of a number-or-null
Truthy(x) == x # Null
Max(a, b) == IF a >= b THEN a ELSE b

\* GET /api/timer without the Math.max of line 44
getTimer_NoClamp ==
    LET timeLeft == IF Truthy(safetyState.deadline)
                    THEN safetyState.deadline - now
                    ELSE 0
    IN [deadline |-> safetyState.deadline,
        timeLeft |-> timeLeft,
        timerDuration |-> safetyState.timerDuration,
        alertSent |-> safetyState.alertSentForCurrentDeadline,
        contacts |-> safetyState.contacts,
        lastResetBy |-> safetyState.lastResetBy]

\* GET /api/timer: the response body
getTimer ==
    LET timeLeft == IF Truthy(safetyState.deadline)
                    THEN safetyState.deadline - now
                    ELSE 0
    IN [deadline |-> safetyState.deadline,
        timeLeft |-> Max(0, timeLeft),
        timerDuration |-> safetyState.timerDuration,
        alertSent |-> safetyState.alertSentForCurrentDeadline,
        contacts |-> safetyState.contacts,
        lastResetBy |-> safetyState.lastResetBy]

\* GET /api/timer
getApiTimer ==
    /\ phase = "listening"
    /\ status' = <<getTimer>>
    /\ lastReturn' = <<>>
    /\ rejected' = ""
    /\ UNCHANGED <<phase, now, nextTick, safetyState, dispatches, rearmTimers, alertedDeadline>>

\* app.listen callback: the first deadline
listen ==
    /\ phase = "loaded"
    /\ phase' = "listening"
    /\ safetyState' = [safetyState EXCEPT !.deadline = now + safetyState.timerDuration]
    /\ lastReturn' = <<>>
    /\ rejected' = ""
    /\ status' = <<>>
    /\ UNCHANGED <<now, nextTick, dispatches, rearmTimers, alertedDeadline>>

\* `duration || safetyState.timerDuration`
effectiveDuration(duration) ==
    IF duration # <<>> /\ duration[1] # 0 THEN duration[1] ELSE safetyState.timerDuration

\* `resetBy || "Anonymous"`
resetByOrAnonymous(resetBy) == IF resetBy # "" THEN resetBy ELSE Anonymous

\* /api/reset-timer without line 61
resetTimer_KeepsFlag(duration, resetBy) ==
    /\ phase = "listening"
    /\ Outstanding < MaxInFlight
    /\ safetyState' = [safetyState EXCEPT
                          !.deadline = now + effectiveDuration(duration),
                          !.lastResetBy = resetByOrAnonymous(resetBy)]
    /\ lastReturn' = <<>>
    /\ rejected' = ""
    /\ status' = <<>>
    /\ UNCHANGED <<phase, now, nextTick, dispatches, rearmTimers, alertedDeadline>>

\* /api/reset-timer keeping the explicit duration as the configured one
resetTimer_StoresDuration(duration, resetBy) ==
    /\ phase = "listening"
    /\ Outstanding < MaxInFlight
    /\ safetyState' = [safetyState EXCEPT
                          !.deadline = now + effectiveDuration(duration),
                          !.timerDuration = effectiveDuration(duration),
                          !.alertSentForCurrentDeadline = FALSE,
                          !.lastResetBy = resetByOrAnonymous(resetBy)]
    /\ lastReturn' = <<>>
    /\ rejected' = ""
    /\ status' = <<>>
    /\ UNCHANGED <<phase, now, nextTick, dispatches, rearmTimers, alertedDeadline>>

\* POST /api/reset-timer
resetTimer(duration, resetBy) ==
    /\ phase = "listening"
    /\ Outstanding < MaxInFlight
    /\ safetyState' = [safetyState EXCEPT
                          !.deadline = now + effectiveDuration(duration),
                          !.alertSentForCurrentDeadline = FALSE,
                          !.lastResetBy = resetByOrAnonymous(resetBy)]
    /\ lastReturn' = <<>>
    /\ rejected' = ""
    /\ status' = <<>>
    /\ UNCHANGED <<phase, now, nextTick, dispatches, rearmTimers, alertedDeadline>>

\* /api/contacts adding the posted contacts to the stored ones
postContacts_Merges(body) ==
    /\ phase = "listening"
    /\ IF ~body.isArray
       THEN /\ safetyState' = safetyState
       ELSE /\ safetyState' = [safetyState EXCEPT !.contacts = @ \o body.items]
    /\ lastReturn' = <<>>
    /\ rejected' = (IF ~body.isArray THEN "contacts" ELSE "")
    /\ status' = <<>>
    /\ UNCHANGED <<phase, now, nextTick, dispatches, rearmTimers, alertedDeadline>>

\* POST /api/contacts
postContacts(body) ==
    /\ phase = "listening"
    /\ IF ~body.isArray
       THEN /\ safetyState' = safetyState
       ELSE /\ safetyState' = [safetyState EXCEPT !.contacts = body.items]
    /\ lastReturn' = <<>>
    /\ rejected' = (IF ~body.isArray THEN "contacts" ELSE "")
    /\ status' = <<>>
    /\ UNCHANGED <<phase, now, nextTick, dispatches, rearmTimers, alertedDeadline>>

\* ((hours || 0) * 3600 + (minutes || 0) * 60 + (seconds || 0)) * 1000
durationOf(body) ==
    (body.hours * SecondsPerHour + body.minutes * SecondsPerMinute + body.seconds)
        * MsPerSecond

\* the deadline that lines 98-101 compute; timerDuration is already the new one
extendedDeadline(deadline, timerDuration) ==
    LET timeElapsed == now - (deadline - timerDuration)
    IN now + timerDuration - timeElapsed

\* /api/timer-duration storing the duration before it is validated
postTimerDuration_StoresFirst(body) ==
    /\ phase = "listening"
    /\ safetyState' = [safetyState EXCEPT !.timerDuration = durationOf(body)]
    /\ lastReturn' = <<>>
    /\ rejected' = (IF durationOf(body) <= 0 THEN "timer-duration" ELSE "")
    /\ status' = <<>>
    /\ UNCHANGED <<phase, now, nextTick, dispatches, rearmTimers, alertedDeadline>>

\* /api/timer-duration with `duration < 0` at line 91
postTimerDuration_AcceptsZero(body) ==
    /\ phase = "listening"
    /\ LET duration == durationOf(body) IN
       IF duration < 0
       THEN /\ safetyState' = safetyState
       ELSE /\ safetyState' =
                   [safetyState EXCEPT
                       !.timerDuration = duration,
                       !.deadline = IF Truthy(@)
                                    THEN extendedDeadline(@, duration)
                                    ELSE @]
    /\ lastReturn' = <<>>
    /\ rejected' = (IF durationOf(body) < 0 THEN "timer-duration" ELSE "")
    /\ status' = <<>>
    /\ UNCHANGED <<phase, now, nextTick, dispatches, rearmTimers, alertedDeadline>>

\* POST /api/timer-duration
postTimerDuration(body) ==
    /\ phase = "listening"
    /\ LET duration == durationOf(body) IN
       IF duration <= 0
       THEN /\ safetyState' = safetyState
       ELSE /\ safetyState' =
                   [safetyState EXCEPT
                       !.timerDuration = duration,
                       !.deadline = IF Truthy(@)
                                    THEN extendedDeadline(@, duration)
                                    ELSE @]
    /\ lastReturn' = <<>>
    /\ rejected' = (IF durationOf(body) <= 0 THEN "timer-duration" ELSE "")
    /\ status' = <<>>
    /\ UNCHANGED <<phase, now, nextTick, dispatches, rearmTimers, alertedDeadline>>

\* safetyState.contacts.filter((c) => c.chatId)
filterChatId(cs) == SelectSeq(cs, LAMBDA c : c.chatId # NoChatId)

\* reading c.chatId of a null element throws a TypeError
filterThrows(cs) == \E k \in DOMAIN cs : ~cs[k].isObject

FreeSlot == CHOOSE s \in Slots : s \notin InFlight /\ \A u \in Slots : u < s => u \in InFlight

\* what the caller chained on the returned promise: checkTimer's .then
\* schedules the re-arm timeout, /api/send-alert's answers the request
resolved(origin) == IF origin = "tick" THEN rearmTimers + 1 ELSE rearmTimers

\* the record a call resolves with, and what it was called on and did
Returned(origin, contacts, calls, outcomes, result) ==
    <<[origin |-> origin, contacts |-> contacts, calls |-> calls,
       outcomes |-> outcomes, result |-> result]>>

\* sendAlertToContacts(message), up to its first await
sendAlertToContacts(origin, message) ==
    IF filterThrows(safetyState.contacts)
    THEN \* the promise rejects: /api/send-alert catches it (500); checkTimer
         \* does not, and an unhandled rejection ends the process or is only
         \* reported, depending on the Node version and flags
         /\ IF origin = "tick"
            THEN phase' \in {"listening", "crashed"}
            ELSE phase' = phase
         /\ lastReturn' = <<>>
         /\ UNCHANGED <<dispatches, rearmTimers>>
    ELSE LET contacts == filterChatId(safetyState.contacts) IN
         IF Len(contacts) = 0
         THEN /\ lastReturn' = Returned(origin, contacts, <<>>, <<>>,
                                        [sent |-> 0, failed |-> 0, total |-> Undefined])
              /\ rearmTimers' = resolved(origin)
              /\ UNCHANGED <<phase, dispatches>>
         ELSE /\ dispatches' =
                    [dispatches EXCEPT ![FreeSlot] =
                        [origin |-> origin,
                         message |-> message,
                         contacts |-> contacts,
                         i |-> 1,
                         sent |-> 0,
                         failed |-> 0,
                         calls |-> <<contacts[1].chatId>>,
                         outcomes |-> <<>>]]
              /\ lastReturn' = <<>>
              /\ UNCHANGED <<phase, rearmTimers>>

\* the loop of lines 138-147 with the catch returning instead of counting on
loopStep_FailFast(d, ok) ==
    LET sent == IF ok THEN d.sent + 1 ELSE d.sent
        failed == IF ok THEN d.failed ELSE d.failed + 1
        outcomes == Append(d.outcomes, ok)
    IN IF ok /\ d.i < Len(d.contacts)
       THEN [done |-> FALSE,
             d |-> [d EXCEPT !.i = d.i + 1, !.sent = sent, !.failed = failed,
                             !.outcomes = outcomes,
                             !.calls = Append(d.calls, d.contacts[d.i + 1].chatId)]]
       ELSE [done |-> TRUE,
             d |-> [d EXCEPT !.sent = sent, !.failed = failed, !.outcomes = outcomes]]

\* one turn of the loop of lines 138-147 once bot.sendMessage has settled
\* (ok: resolved, ~ok: rejected), up to the next await or the return
loopStep(d, ok) ==
    LET sent == IF ok THEN d.sent + 1 ELSE d.sent
        failed == IF ok THEN d.failed ELSE d.failed + 1
        outcomes == Append(d.outcomes, ok)
    IN IF d.i < Len(d.contacts)
       THEN [done |-> FALSE,
             d |-> [d EXCEPT !.i = d.i + 1, !.sent = sent, !.failed = failed,
                             !.outcomes = outcomes,
                             !.calls = Append(d.calls, d.contacts[d.i + 1].chatId)]]
       ELSE [done |-> TRUE,
             d |-> [d EXCEPT !.sent = sent, !.failed = failed, !.outcomes = outcomes]]

\* the return of line 149 counting the stored list instead of the filtered copy
sendMessageSettled_CountsStored(s, ok) ==
    /\ phase = "listening"
    /\ s \in InFlight
    /\ LET r == loopStep(dispatches[s], ok) IN
       IF r.done
       THEN /\ dispatches' = [dispatches EXCEPT ![s] = Idle]
            /\ lastReturn' = Returned(r.d.origin, r.d.contacts, r.d.calls, r.d.outcomes,
                                      [sent |-> r.d.sent, failed |-> r.d.failed,
                                       total |-> Len(filterChatId(safetyState.contacts))])
            /\ rearmTimers' = resolved(r.d.origin)
       ELSE /\ dispatches' = [dispatches EXCEPT ![s] = r.d]
            /\ lastReturn' = <<>>
            /\ rearmTimers' = rearmTimers
    /\ rejected' = ""
    /\ status' = <<>>
    /\ UNCHANGED <<phase, now, nextTick, safetyState, alertedDeadline>>

\* bot.sendMessage of slot s settles
sendMessageSettled(s, ok) ==
    /\ phase = "listening"
    /\ s \in InFlight
    /\ LET r == loopStep(dispatches[s], ok) IN
       IF r.done
       THEN /\ dispatches' = [dispatches EXCEPT ![s] = Idle]
            /\ lastReturn' = Returned(r.d.origin, r.d.contacts, r.d.calls, r.d.outcomes,
                                      [sent |-> r.d.sent, failed |-> r.d.failed,
                                       total |-> Len(r.d.contacts)])
            /\ rearmTimers' = resolved(r.d.origin)
       ELSE /\ dispatches' = [dispatches EXCEPT ![s] = r.d]
            /\ lastReturn' = <<>>
            /\ rearmTimers' = rearmTimers
    /\ rejected' = ""
    /\ status' = <<>>
    /\ UNCHANGED <<phase, now, nextTick, safetyState, alertedDeadline>>

\* /api/send-alert that also marks the alert of the current deadline as sent
postSendAlert_RaisesFlag(message) ==
    /\ phase = "listening"
    /\ IF safetyState.alertSentForCurrentDeadline
       THEN Outstanding < MaxInFlight
       ELSE Outstanding + 1 < MaxInFlight
    /\ IF message = ""
       THEN /\ lastReturn' = <<>>
            /\ UNCHANGED <<phase, dispatches, rearmTimers, safetyState>>
       ELSE /\ sendAlertToContacts("manual", message)
            /\ safetyState' = [safetyState EXCEPT !.alertSentForCurrentDeadline = TRUE]
    /\ rejected' = (IF message = "" THEN "send-alert" ELSE "")
    /\ status' = <<>>
    /\ UNCHANGED <<now, nextTick, alertedDeadline>>

\* POST /api/send-alert
postSendAlert(message) ==
    /\ phase = "listening"
    /\ IF safetyState.alertSentForCurrentDeadline
       THEN Outstanding < MaxInFlight
       ELSE Outstanding + 1 < MaxInFlight
    /\ IF message = ""
       THEN /\ lastReturn' = <<>>
            /\ UNCHANGED <<phase, dispatches, rearmTimers>>
       ELSE sendAlertToContacts("manual", message)
    /\ rejected' = (IF message = "" THEN "send-alert" ELSE "")
    /\ status' = <<>>
    /\ UNCHANGED <<now, nextTick, safetyState, alertedDeadline>>

\* the condition of line 160, after the early return of line 155
expired ==
    /\ Truthy(safetyState.deadline)
    /\ now >= safetyState.deadline
    /\ ~safetyState.alertSentForCurrentDeadline

\* checkTimer without the `!safetyState.alertSentForCurrentDeadline` of line 160
checkTimer_IgnoresFlag ==
    /\ phase = "listening"
    /\ now >= nextTick
    /\ nextTick' = nextTick + checkInterval
    /\ IF Truthy(safetyState.deadline) /\ now >= safetyState.deadline
       THEN /\ safetyState' = [safetyState EXCEPT !.alertSentForCurrentDeadline = TRUE]
            /\ sendAlertToContacts("tick", defaultMessage)
            /\ alertedDeadline' = safetyState.deadline
       ELSE /\ lastReturn' = <<>>
            /\ UNCHANGED <<phase, safetyState, dispatches, rearmTimers, alertedDeadline>>
    /\ rejected' = ""
    /\ status' = <<>>
    /\ UNCHANGED now

\* checkTimer, run by setInterval
checkTimer ==
    /\ phase = "listening"
    /\ now >= nextTick
    /\ nextTick' = nextTick + checkInterval
    /\ IF expired
       THEN /\ safetyState' = [safetyState EXCEPT !.alertSentForCurrentDeadline = TRUE]
            /\ sendAlertToContacts("tick", defaultMessage)
            /\ alertedDeadline' = safetyState.deadline
       ELSE /\ lastReturn' = <<>>
            /\ UNCHANGED <<phase, safetyState, dispatches, rearmTimers, alertedDeadline>>
    /\ rejected' = ""
    /\ status' = <<>>
    /\ UNCHANGED now

\* the re-arm timeout without line 174
rearm_KeepsFlag ==
    /\ phase = "listening"
    /\ rearmTimers > 0
    /\ rearmTimers' = rearmTimers - 1
    /\ safetyState' = [safetyState EXCEPT !.deadline = now + safetyState.timerDuration]
    /\ lastReturn' = <<>>
    /\ rejected' = ""
    /\ status' = <<>>
    /\ UNCHANGED <<phase, now, nextTick, dispatches, alertedDeadline>>

\* the setTimeout callback of lines 172-176
rearm ==
    /\ phase = "listening"
    /\ rearmTimers > 0
    /\ rearmTimers' = rearmTimers - 1
    /\ safetyState' = [safetyState EXCEPT
                          !.deadline = now + safetyState.timerDuration,
                          !.alertSentForCurrentDeadline = FALSE]
    /\ lastReturn' = <<>>
    /\ rejected' = ""
    /\ status' = <<>>
    /\ UNCHANGED <<phase, now, nextTick, dispatches, alertedDeadline>>

\* the wall clock reaches the next period; checkTimer runs when it is due
clock ==
    /\ phase = "listening"
    /\ now < nextTick
    /\ now + checkInterval <= Horizon
    /\ now' = now + checkInterval
    /\ lastReturn' = <<>>
    /\ rejected' = ""
    /\ status' = <<>>
    /\ UNCHANGED <<phase, nextTick, safetyState, dispatches, rearmTimers, alertedDeadline>>

Next ==
    \/ listen
    \/ getApiTimer
    \/ \E d \in ResetDurations, r \in ResetNames : resetTimer(d, r)
    \/ \E b \in ContactsBodies : postContacts(b)
    \/ \E b \in TimerDurationBodies : postTimerDuration(b)
    \/ \E m \in Messages : postSendAlert(m)
    \/ \E s \in Slots, ok \in BOOLEAN : sendMessageSettled(s, ok)
    \/ checkTimer
    \/ rearm
    \/ clock

Spec == Init /\ [][Next]_vars

\* The server of a deployment whose contact list holds at most one entry:
\* every handler and callback, each dispatch awaiting a single send.
SingleContactBodies == {b \in ContactsBodies : Len(b.items) <= 1}

TimerNext ==
    \/ listen
    \/ getApiTimer
    \/ \E d \in ResetDurations, r \in ResetNames : resetTimer(d, r)
    \/ \E b \in SingleContactBodies : postContacts(b)
    \/ \E b \in TimerDurationBodies : postTimerDuration(b)
    \/ \E m \in Messages : postSendAlert(m)
    \/ \E s \in Slots, ok \in BOOLEAN : sendMessageSettled(s, ok)
    \/ checkTimer
    \/ rearm
    \/ clock

TimerSpec == Init /\ [][TimerNext]_vars

\* The dispatcher as checkTimer drives it: check-ins of one period each, any
\* contact list, no /api/timer-duration and no /api/send-alert requests.
ArrayBodies == {b \in ContactsBodies : b.isArray}

DispatchNext ==
    \/ listen
    \/ resetTimer(<<checkInterval>>, "")
    \/ \E b \in ArrayBodies : postContacts(b)
    \/ \E s \in Slots, ok \in BOOLEAN : sendMessageSettled(s, ok)
    \/ checkTimer
    \/ rearm
    \/ clock

DispatchSpec == Init /\ [][DispatchNext]_vars

\* ------------------------------------------------------------------ claims
alertSent == safetyState.alertSentForCurrentDeadline
\* a step in which checkTimer raises the flag and calls sendAlertToContacts
FireStep == ~alertSent /\ alertSent'
ResetStep == \E d \in ResetDurations, r \in ResetNames : resetTimer(d, r)

C2_OnceAlertPerDeadline ==
    [][FireStep => safetyState.deadline # alertedDeadline]_vars

C4_DurationPreservesElapsed ==
    [][\A b \in TimerDurationBodies :
          (/\ postTimerDuration(b)
           /\ durationOf(b) > 0
           /\ Truthy(safetyState.deadline)
           /\ now < safetyState.deadline
           /\ ~alertSent)
          => /\ safetyState'.timerDuration = durationOf(b)
             /\ safetyState'.deadline =
                    safetyState.deadline + durationOf(b) - safetyState.timerDuration]_vars

\* the effective duration of the specification: the supplied one if it is
\* provided and positive, the configured one otherwise
EffectiveDuration(duration) ==
    IF duration # <<>> /\ duration[1] > 0 THEN duration[1] ELSE safetyState.timerDuration

\* C5: right after reset(duration, resetBy) the reported timeLeft is the
\* effective duration, the flag is false and lastResetBy is resetBy or
\* "Anonymous".
C5_ResetTimeLeft ==
    [][\A d \in ResetDurations, r \in ResetNames :
          resetTimer(d, r)
          => /\ getTimer'.timeLeft = EffectiveDuration(d)
             /\ ~alertSent'
             /\ safetyState'.lastResetBy = (IF r = "" THEN Anonymous ELSE r)]_vars

\* C6: after checkTimer has raised the flag the timer is re-armed: while the
\* flag is up the re-arm is on its way, as a dispatch of checkTimer still in
\* flight or as a pending re-arm timeout.
C6_RearmOnItsWay ==
    alertSent => (TickInFlight # {} \/ rearmTimers > 0)

\* C7: at most one dispatch started by checkTimer is in flight.
C7_NoOverlappingTickDispatch ==
    Cardinality(TickInFlight) <= 1

Count(seq, v) == Cardinality({k \in DOMAIN seq : seq[k] = v})

\* C8: a dispatch returns total = the number of contacts with a chatId,
\* sent = the number of resolved sends, failed = the number of rejected ones
\* and sent + failed = total.
C8_ReturnedCounts ==
    lastReturn # <<>> =>
        LET r == lastReturn[1] IN
        /\ r.result.total = Len(r.contacts)
        /\ r.result.sent = Count(r.outcomes, TRUE)
        /\ r.result.failed = Count(r.outcomes, FALSE)
        /\ r.result.sent + r.result.failed = r.result.total

\* the chatIds of the contacts that have one, in order
WithChatId(cs) ==
    LET RECURSIVE from(_)
        from(k) == IF k > Len(cs) THEN <<>>
                   ELSE IF cs[k].isObject /\ cs[k].chatId # NoChatId
                        THEN <<cs[k].chatId>> \o from(k + 1)
                        ELSE from(k + 1)
    IN from(1)

\* C9: a dispatch calls bot.sendMessage once for each contact with a chatId,
\* in turn, and for no other; a rejected send neither ends the dispatch nor
\* the process, and the dispatch returns only after every such contact was
\* tried once.
C9_NoFailFast ==
    [][/\ \A s \in Slots :
            (dispatches[s].origin = "idle" /\ dispatches'[s].origin # "idle")
            => /\ [k \in DOMAIN dispatches'[s].contacts |->
                      dispatches'[s].contacts[k].chatId] = WithChatId(safetyState.contacts)
               /\ dispatches'[s].calls = <<dispatches'[s].contacts[1].chatId>>
       /\ \A s \in Slots :
            (dispatches[s].origin # "idle" /\ dispatches'[s] # dispatches[s])
            => /\ phase' = phase
               /\ IF dispatches'[s].origin = "idle"
                  THEN /\ lastReturn' # <<>>
                       /\ lastReturn'[1].calls =
                              [k \in DOMAIN dispatches[s].contacts |->
                                  dispatches[s].contacts[k].chatId]
                       /\ Len(lastReturn'[1].outcomes) = Len(dispatches[s].contacts)
                  ELSE /\ dispatches'[s].contacts = dispatches[s].contacts
                       /\ Len(dispatches'[s].calls) = Len(dispatches[s].calls) + 1
                       /\ dispatches'[s].calls =
                              [k \in 1..Len(dispatches'[s].calls) |->
                                  dispatches[s].contacts[k].chatId]
                       /\ Len(dispatches'[s].outcomes) = Len(dispatches'[s].calls) - 1]_vars

\* C9 witness: the first send was rejected, the second was still made and resolved
C9_Witness ==
    /\ lastReturn # <<>>
    /\ lastReturn[1].outcomes = <<FALSE, TRUE>>
    /\ Len(lastReturn[1].calls) = 2

\* C10: with no contact that has a chatId the dispatch returns
\* {sent: 0, failed: 0, total: 0} and calls bot.sendMessage for nobody.
C10_EmptyDispatch ==
    (lastReturn # <<>> /\ Len(lastReturn[1].contacts) = 0) =>
        /\ lastReturn[1].result = [sent |-> 0, failed |-> 0, total |-> 0]
        /\ lastReturn[1].calls = <<>>

\* C11: a /api/timer-duration request whose computed duration is zero or
\* negative is answered 400 and changes nothing: timerDuration, deadline,
\* alertSentForCurrentDeadline, contacts and lastResetBy stay as they were,
\* and so do the dispatches and re-arm timeouts.
C11_RejectedDurationChangesNothing ==
    [][\A b \in TimerDurationBodies :
          (durationOf(b) <= 0 /\ postTimerDuration(b))
          => /\ rejected' = "timer-duration"
             /\ safetyState' = safetyState
             /\ UNCHANGED <<dispatches, rearmTimers, phase>>]_vars

\* C11 witness: a request was just rejected on an armed timer whose duration
\* an earlier request had replaced
C11_Witness ==
    /\ rejected = "timer-duration"
    /\ Truthy(safetyState.deadline)
    /\ safetyState.timerDuration # DefaultTimerDuration

\* C12: timerDuration > 0 in every reachable state.
C12_TimerDurationPositive ==
    safetyState.timerDuration > 0

\* C12 witness: the duration was replaced, a reset with an explicit duration
\* was made and an alert was started and re-armed
C12_Witness ==
    /\ safetyState.timerDuration # DefaultTimerDuration
    /\ safetyState.lastResetBy # NullName
    /\ alertedDeadline # Null
    /\ safetyState.deadline = now + safetyState.timerDuration
    /\ rejected = "timer-duration"

\* C13: /api/send-alert never touches the timer: with a non-empty message it
\* calls sendAlertToContacts on the current contacts (the sends go to those
\* with a chatId, the first one at once) and leaves deadline, timerDuration,
\* alertSentForCurrentDeadline, lastResetBy, the contacts and the re-arm
\* timeouts as they were; with an absent or empty message it answers 400,
\* sends nothing and changes nothing.
C13_ManualAlertBypassesTimer ==
    [][\A m \in Messages :
          postSendAlert(m)
          => /\ safetyState' = safetyState
             /\ UNCHANGED <<rearmTimers, phase, now, nextTick>>
             /\ IF m = ""
                THEN rejected' = "send-alert" /\ dispatches' = dispatches /\ lastReturn' = <<>>
                ELSE /\ rejected' = ""
                     /\ IF filterThrows(safetyState.contacts)
                        THEN dispatches' = dispatches /\ lastReturn' = <<>>
                        ELSE IF WithChatId(safetyState.contacts) = <<>>
                        THEN /\ dispatches' = dispatches
                             /\ lastReturn' # <<>>
                             /\ lastReturn'[1].calls = <<>>
                        ELSE \E s \in Slots :
                                /\ dispatches[s] = Idle
                                /\ dispatches'[s].origin = "manual"
                                /\ dispatches'[s].message = m
                                /\ [k \in DOMAIN dispatches'[s].contacts |->
                                       dispatches'[s].contacts[k].chatId]
                                       = WithChatId(safetyState.contacts)
                                /\ \A u \in Slots \ {s} : dispatches'[u] = dispatches[u]]_vars

\* C13 witness: a manual alert is on its way while the alert of the current
\* deadline has been sent and its re-arm is still to come
C13_Witness ==
    /\ alertSent
    /\ rearmTimers > 0
    /\ \E s \in Slots : dispatches[s].origin = "manual"

\* C14: a /api/contacts request whose contacts is not an array is answered
\* 400 and changes nothing; with an array (here of at most one element, over
\* a stored list of at most one), contacts becomes exactly the posted list
\* and deadline, timerDuration, alertSentForCurrentDeadline and lastResetBy
\* are unchanged.
C14_ContactsReplacedOrRejected ==
    [][\A b \in SingleContactBodies :
          postContacts(b)
          => /\ IF ~b.isArray
                THEN rejected' = "contacts" /\ safetyState' = safetyState
                ELSE /\ rejected' = ""
                     /\ safetyState'.contacts = b.items
                     /\ safetyState' = [safetyState EXCEPT !.contacts = b.items]
             /\ UNCHANGED <<dispatches, rearmTimers, phase, now, nextTick>>]_vars

\* C14 witness: the list a dispatch in flight had read (a contact with a
\* chatId) was replaced by a list of one contact without chatId, and a request
\* that is not an array has just been rejected
C14_Witness ==
    /\ rejected = "contacts"
    /\ safetyState.contacts = <<[isObject |-> TRUE, chatId |-> NoChatId]>>
    /\ \E s \in Slots : dispatches[s].origin # "idle"

\* C15: a GET /api/timer changes nothing and reports timeLeft = deadline - now
\* when the deadline is set and not passed, 0 when it is passed or not set,
\* so never a negative timeLeft, and alertSent = alertSentForCurrentDeadline
\* together with the other fields as they are.
C15_StatusReadOnly ==
    [][status' # <<>>
       => /\ UNCHANGED <<safetyState, now, nextTick, phase, dispatches, rearmTimers>>
          /\ LET r == status'[1]
                 left == safetyState.deadline - now
             IN /\ r.timeLeft = (IF safetyState.deadline # Null /\ left > 0 THEN left ELSE 0)
                /\ r.timeLeft >= 0
                /\ r.alertSent = safetyState.alertSentForCurrentDeadline
                /\ r.deadline = safetyState.deadline
                /\ r.timerDuration = safetyState.timerDuration
                /\ r.contacts = safetyState.contacts
                /\ r.lastResetBy = safetyState.lastResetBy]_vars

\* C15 witness: the status was read after the deadline had passed and the
\* alert had been sent
C15_Witness ==
    /\ status # <<>>
    /\ status[1].timeLeft = 0
    /\ status[1].alertSent
    /\ Truthy(safetyState.deadline)
    /\ safetyState.deadline < now

\* a step of checkTimer: the only one that moves the scheduler on
TickStep == nextTick' # nextTick

\* C16: checkTimer starts a dispatch and changes state only when the deadline
\* is set, now >= deadline and the flag is false; otherwise (no deadline, a
\* deadline still to come, or the flag already true) it sends nothing and
\* leaves every field of the state unchanged.
C16_NoFalseAlarm ==
    [][/\ (TickStep /\ ~expired)
          => /\ safetyState' = safetyState
             /\ UNCHANGED <<dispatches, rearmTimers, phase, alertedDeadline>>
             /\ lastReturn' = <<>>
       /\ (\E s \in Slots : dispatches[s].origin # "tick" /\ dispatches'[s].origin = "tick")
          => /\ TickStep
             /\ Truthy(safetyState.deadline)
             /\ now >= safetyState.deadline
             /\ ~alertSent]_vars

\* C16 witness: checkTimer has run twice on an armed timer whose deadline is
\* still to come, and no alert was ever started
C16_Witness ==
    /\ nextTick = BootTime + 3 * checkInterval
    /\ alertedDeadline = Null
    /\ Truthy(safetyState.deadline)
    /\ now < safetyState.deadline
    /\ safetyState.lastResetBy # NullName
    /\ InFlight = {}

\* a step of the re-arm timeout: the only one that takes a pending timeout away
RearmStep == rearmTimers' = rearmTimers - 1

\* C17: a reset, with an explicit duration or without, leaves timerDuration
\* and contacts unchanged, and the re-arm timeout sets the deadline to now +
\* the configured timerDuration, whatever duration the last reset gave.
C17_ResetDurationIsTemporary ==
    [][/\ (\/ safetyState'.timerDuration # safetyState.timerDuration
           \/ safetyState'.contacts # safetyState.contacts)
          => ~ResetStep
       /\ RearmStep
          => /\ safetyState'.deadline = now + safetyState.timerDuration
             /\ safetyState'.timerDuration = safetyState.timerDuration
             /\ safetyState'.contacts = safetyState.contacts]_vars

\* C17 witness: the alert for the deadline that a reset of one period had
\* installed was sent and the timer re-armed with the configured 24 hours
C17_Witness ==
    /\ alertedDeadline = BootTime + checkInterval
    /\ safetyState.lastResetBy = "Alice"
    /\ safetyState.timerDuration = DefaultTimerDuration
    /\ safetyState.deadline = now + DefaultTimerDuration
    /\ ~alertSent
    /\ rearmTimers = 0
    /\ InFlight = {}

\* C18: the deadline changes only by a reset, by an accepted
\* /api/timer-duration, by the app.listen callback, or by the re-arm that
\* follows the alert sent for that very deadline: a re-arm timeout left over
\* from an earlier alert never replaces the deadline a reset has installed
\* since.
C18_ResetNotOverwritten ==
    [][safetyState'.deadline # safetyState.deadline
       => \/ ResetStep
          \/ \E b \in TimerDurationBodies : durationOf(b) > 0 /\ postTimerDuration(b)
          \/ phase = "loaded"
          \/ /\ RearmStep
             /\ alertSent
             /\ safetyState.deadline = alertedDeadline]_vars

\* C19: while alertSentForCurrentDeadline is true the deadline is set and
\* passed (now >= deadline), and GET /api/timer reports timeLeft 0 whenever it
\* reports alertSent.
C19_FlagImpliesExpired ==
    alertSent
    => /\ safetyState.deadline # Null
       /\ now >= safetyState.deadline
       /\ getTimer.alertSent
       /\ getTimer.timeLeft = 0

\* C19 witness: the alert was sent one period ago, the duration has been
\* replaced since and the re-arm is still to come
C19_Witness ==
    /\ alertSent
    /\ safetyState.deadline + checkInterval <= now
    /\ alertedDeadline = safetyState.deadline
    /\ safetyState.timerDuration # DefaultTimerDuration
    /\ TickInFlight # {}

\* the chatIds a dispatch was started for
chatIdsOf(d) == [k \in DOMAIN d.contacts |-> d.contacts[k].chatId]

\* C20: a dispatch works on the contacts it read when it was started.  A step
\* that changes safetyState (a /api/contacts, a reset, a /api/timer-duration)
\* leaves every dispatch in flight as it is; a dispatch in flight keeps its
\* contacts and its message from one send to the next, and it returns the
\* counts of those contacts, total = their number, whatever the stored list
\* has become.
C20_DispatchSnapshot ==
    [][\A s \in Slots :
          dispatches[s].origin # "idle"
          => /\ dispatches'[s] # dispatches[s]
                => (safetyState'.contacts = safetyState.contacts /\ ~ResetStep)
             /\ IF dispatches'[s].origin = "idle"
                THEN /\ lastReturn' # <<>>
                     /\ lastReturn'[1].contacts = dispatches[s].contacts
                     /\ lastReturn'[1].calls = chatIdsOf(dispatches[s])
                     /\ lastReturn'[1].result.total = Len(dispatches[s].contacts)
                     /\ lastReturn'[1].result.sent + lastReturn'[1].result.failed
                            = Len(dispatches[s].contacts)
                ELSE /\ dispatches'[s].contacts = dispatches[s].contacts
                     /\ dispatches'[s].message = dispatches[s].message
                     /\ dispatches'[s].origin = dispatches[s].origin]_vars

\* C20 witness: a dispatch started for two contacts has returned total 2
\* after both sends, the stored list having been emptied meanwhile
C20_Witness ==
    /\ lastReturn # <<>>
    /\ Len(lastReturn[1].contacts) = 2
    /\ Len(lastReturn[1].calls) = 2
    /\ lastReturn[1].result.total = 2
    /\ safetyState.contacts = <<>>

====
